---- MODULE Spec2Model ----
(***************************************************************************)
(* A model of kooplearn's primal operator-regression engine                *)
(* (kooplearn/_src/operator_regression/primal.py): the rank-revealing      *)
(* truncation, the exact fitters, the predictor and the spectral analyser, *)
(* and of the context-window utilities stack_lookback and unstack_lookback *)
(* (kooplearn/_src/context_window_utils.py).                               *)
(*                                                                         *)
(* The functions are pure.  Every specification below draws the arguments *)
(* of one family of functions in its initial state and applies the        *)
(* function in one action; `inp` holds the arguments, `out` the value     *)
(* returned (or the exception raised) and `pc` the position of the call.  *)
(*                                                                         *)
(* Arithmetic is exact.  A number is (a + b i)/d * sqrt(r) with integers   *)
(* a, b, d > 0 and a square-free r >= 1, which is closed under the         *)
(* products, quotients, square roots and same-radical sums the code        *)
(* takes on the inputs enumerated here; IEEE non-finite results ("inf",    *)
(* "nan") are kept as kinds of their own.                                   *)
(***************************************************************************)
EXTENDS Integers, Sequences, FiniteSets, TLC

VARIABLES pc, inp, out

vars == <<pc, inp, out>>

----------------------------------------------------------------------------
(* Exact numbers *)

Abs(x) == IF x < 0 THEN -x ELSE x

RECURSIVE Gcd(_, _)
Gcd(x, y) == IF y = 0 THEN x ELSE Gcd(y, x % y)

\* The largest s with s*s dividing n (n >= 1), searched from k upwards.
RECURSIVE SqPartFrom(_, _)
SqPartFrom(n, k) ==
    IF k * k > n THEN 1
    ELSE IF n % (k * k) = 0 THEN k * SqPartFrom(n \div (k * k), k)
    ELSE SqPartFrom(n, k + 1)

SqPart(n) == IF n = 1 THEN 1 ELSE SqPartFrom(n, 2)

Zero == [k |-> "fin", a |-> 0, b |-> 0, d |-> 1, r |-> 1]
NaN == [k |-> "nan", a |-> 0, b |-> 0, d |-> 1, r |-> 1]
Inf == [k |-> "inf", a |-> 0, b |-> 0, d |-> 1, r |-> 1]

\* (a + b i)/d * sqrt(r) in normal form; d /= 0, r >= 1.  s is the square
\* part of r and g the common divisor of a, b and d.
MkReduced(a, b, d, r, g) ==
    [k |-> "fin", a |-> a \div g, b |-> b \div g, d |-> d \div g, r |-> r]

MkSigned(a, b, d, r) == MkReduced(a, b, d, r, Gcd(Gcd(Abs(a), Abs(b)), d))

MkSquareFree(a, b, d, r, s) ==
    IF d < 0 THEN MkSigned(-a * s, -b * s, -d, r \div (s * s))
    ELSE MkSigned(a * s, b * s, d, r \div (s * s))

Mk(a, b, d, r) ==
    IF a = 0 /\ b = 0 THEN Zero ELSE MkSquareFree(a, b, d, r, SqPart(r))

Num(n) == Mk(n, 0, 1, 1)
Rat(n, d) == Mk(n, 0, d, 1)
Cpx(a, b) == Mk(a, b, 1, 1)
One == Num(1)

IsFinite(x) == x.k = "fin"
IsZero(x) == x.k = "fin" /\ x.a = 0 /\ x.b = 0
IsReal(x) == x.k = "fin" /\ x.b = 0
IsRational(x) == IsReal(x) /\ x.r = 1

Neg(x) == IF x.k = "fin" THEN Mk(-x.a, -x.b, x.d, x.r) ELSE x
Conj(x) == IF x.k = "fin" THEN Mk(x.a, -x.b, x.d, x.r) ELSE x

Mul(x, y) ==
    IF x.k = "nan" \/ y.k = "nan" THEN NaN
    ELSE IF x.k = "inf" \/ y.k = "inf"
         THEN (IF IsZero(x) \/ IsZero(y) THEN NaN ELSE Inf)
    ELSE Mk(x.a * y.a - x.b * y.b, x.a * y.b + x.b * y.a, x.d * y.d, x.r * y.r)

\* Sums are taken between numbers of one radical (or with zero); the inputs
\* enumerated below keep every sum of the code inside this case.
SameRadical(x, y) == IsZero(x) \/ IsZero(y) \/ x.r = y.r

Add(x, y) ==
    IF x.k = "nan" \/ y.k = "nan" THEN NaN
    ELSE IF x.k = "inf" \/ y.k = "inf" THEN Inf
    ELSE IF IsZero(x) THEN y
    ELSE IF IsZero(y) THEN x
    ELSE CASE x.r = y.r ->
              Mk(x.a * y.d + y.a * x.d, x.b * y.d + y.b * x.d, x.d * y.d, x.r)

Sub(x, y) == Add(x, Neg(y))

\* IEEE division: x/0 is inf for x /= 0 and nan for x = 0; x/inf is 0.
Div(x, y) ==
    IF x.k = "nan" \/ y.k = "nan" THEN NaN
    ELSE IF y.k = "inf" THEN (IF x.k = "inf" THEN NaN ELSE Zero)
    ELSE IF x.k = "inf" THEN Inf
    ELSE IF IsZero(y) THEN (IF IsZero(x) THEN NaN ELSE Inf)
    ELSE Mk((x.a * y.a + x.b * y.b) * y.d, (x.b * y.a - x.a * y.b) * y.d,
            x.d * (y.a * y.a + y.b * y.b) * y.r, x.r * y.r)

\* |x|^2, a rational.
AbsSq(x) == Mul(x, Conj(x))

\* x < y for rationals; false when an operand is nan, as in IEEE.
Lt(x, y) == /\ IsRational(x) /\ IsRational(y)
            /\ x.a * y.d < y.a * x.d

Gt(x, y) == Lt(y, x)

\* The square root of a rational: sqrt(a/d) = sqrt(a*d)/d; nan below zero.
Sqrt(x) ==
    IF x.k # "fin" THEN x
    ELSE IF IsZero(x) THEN Zero
    ELSE IF x.a < 0 THEN NaN
    ELSE CASE IsRational(x) -> Mk(1, 0, x.d, x.a * x.d)

\* x ** (-0.5) and x ** (-1.0) of numpy.
PowNegHalf(x) == Div(One, Sqrt(x))
Recip(x) == Div(One, x)

----------------------------------------------------------------------------
(* Dense arrays: a matrix is a sequence of rows, a vector a sequence *)

Rows(m) == Len(m)
Cols(m) == IF Len(m) = 0 THEN 0 ELSE Len(m[1])
Shape(m) == <<Rows(m), Cols(m)>>

RECURSIVE SumSeq(_)
SumSeq(s) == IF Len(s) = 0 THEN Zero ELSE Add(s[1], SumSeq(Tail(s)))

Column(m, j) == [i \in 1..Rows(m) |-> m[i][j]]
Transpose(m) == [j \in 1..Cols(m) |-> [i \in 1..Rows(m) |-> m[i][j]]]

\* a @ b
MatMul(a, b) ==
    [i \in 1..Rows(a) |->
        [j \in 1..Cols(b) |->
            SumSeq([l \in 1..Cols(a) |-> Mul(a[i][l], b[l][j])])]]

\* a * b, elementwise
Hadamard(a, b) ==
    [i \in 1..Rows(a) |-> [j \in 1..Cols(a) |-> Mul(a[i][j], b[i][j])]]

MatAdd(a, b) ==
    [i \in 1..Rows(a) |-> [j \in 1..Cols(a) |-> Add(a[i][j], b[i][j])]]

Scale(c, m) == [i \in 1..Rows(m) |-> [j \in 1..Cols(m) |-> Mul(c, m[i][j])]]

\* np.identity(n), np.zeros((n, c)), np.diag(v)
Identity(n) == [i \in 1..n |-> [j \in 1..n |-> IF i = j THEN One ELSE Zero]]
Zeros(n, c) == [i \in 1..n |-> [j \in 1..c |-> Zero]]
Diag(v) == [i \in 1..Len(v) |-> [j \in 1..Len(v) |-> IF i = j THEN v[i] ELSE Zero]]

\* m[:, idx] for a sequence of column indices, and m[:, mask] for a boolean mask
TakeCols(m, idx) == [i \in 1..Rows(m) |-> [j \in 1..Len(idx) |-> m[i][idx[j]]]]

RECURSIVE MaskIdx(_, _)
MaskIdx(mask, from) ==
    IF from > Len(mask) THEN <<>>
    ELSE (IF mask[from] THEN <<from>> ELSE <<>>) \o MaskIdx(mask, from + 1)

TakeSeq(s, idx) == [j \in 1..Len(idx) |-> s[idx[j]]]

\* np.c_[a, b]
HStack(a, b) == [i \in 1..Rows(a) |-> a[i] \o b[i]]

\* m / v with v broadcast along the columns (one divisor per column)
DivCols(m, v) == [i \in 1..Rows(m) |-> [j \in 1..Cols(m) |-> Div(m[i][j], v[j])]]

\* np.sum(m, axis=0) and np.linalg.norm(m, axis=0)
ColSums(m) == [j \in 1..Cols(m) |-> SumSeq(Column(m, j))]
ColNorms(m) ==
    [j \in 1..Cols(m) |-> Sqrt(SumSeq([i \in 1..Rows(m) |-> AbsSq(m[i][j])]))]

IsZeroCol(m, j) == \A i \in 1..Rows(m) : IsZero(m[i][j])

----------------------------------------------------------------------------
(* Sorting *)

Re(x) == Mk(x.a, 0, x.d, x.r)
Im(x) == Mk(x.b, 0, x.d, x.r)

\* numpy's order on complex numbers: by real part, then by imaginary part.
LexLt(x, y) == Lt(Re(x), Re(y)) \/ (Re(x) = Re(y) /\ Lt(Im(x), Im(y)))

\* The index i put into the sorted index list p, after the entries not above it.
RECURSIVE InsertIdx(_, _, _)
InsertIdx(p, i, vals) ==
    IF Len(p) = 0 THEN <<i>>
    ELSE IF LexLt(vals[i], vals[p[1]]) THEN <<i>> \o p
    ELSE <<p[1]>> \o InsertIdx(Tail(p), i, vals)

RECURSIVE ArgsortUpTo(_, _)
ArgsortUpTo(vals, n) ==
    IF n = 0 THEN <<>> ELSE InsertIdx(ArgsortUpTo(vals, n - 1), n, vals)

\* np.argsort(vals): ascending; arrays this short are sorted by insertion,
\* which leaves equal entries in index order.
argsort(vals) == ArgsortUpTo(vals, Len(vals))

Reverse(s) == [j \in 1..Len(s) |-> s[Len(s) + 1 - j]]
Min(x, y) == IF x < y THEN x ELSE y

\* topk(vec, k): the k largest entries, largest first, with their indices.
TopKReturnType(vec, indices) == [values |-> TakeSeq(vec, indices), indices |-> indices]

topk(vec, k) ==
    TopKReturnType(vec, SubSeq(Reverse(argsort(vec)), 1, Min(k, Len(vec))))

----------------------------------------------------------------------------
(* RankTruncator *)

\* _test = S > rcond
rank_test(S, rcond) == [j \in 1..Len(S) |-> Gt(S[j], rcond)]

\* The else-branch with the padding left out (a shrunk result).
rank_reveal_nopad(S, V, rank) == [S |-> S, V |-> V, warned |-> TRUE]

\* The else-branch of _rank_reveal: S and V restricted to the columns that
\* pass the test, V padded with zero columns up to `rank`.
rank_reveal_pad(S, V, rank) ==
    [S |-> S, V |-> HStack(V, Zeros(Rows(V), rank - Cols(V))), warned |-> TRUE]

rank_reveal_tested(S, V, rank, keep) ==
    IF Len(keep) = Len(S)
    THEN [S |-> S, V |-> V, warned |-> FALSE]
    ELSE rank_reveal_pad(TakeSeq(S, keep), TakeCols(V, keep), rank)

rank_reveal_top(top_vals, vectors, rank, rcond) ==
    rank_reveal_tested(top_vals.values, TakeCols(vectors, top_vals.indices), rank,
                       MaskIdx(rank_test(top_vals.values, rcond), 1))

\* _rank_reveal(values, vectors, rank, rcond), returning S, V and whether
\* the warning was logged.
rank_reveal(values, vectors, rank, rcond) ==
    rank_reveal_top(topk(values, rank), vectors, rank, rcond)

----------------------------------------------------------------------------
(* Specification SpecTrunc: calls of _rank_reveal *)

MaxLen == 3
MaxVal == 2

NoOut == [tag |-> "none"]

RECURSIVE SeqsOfLen(_, _)
SeqsOfLen(S, n) ==
    IF n = 0 THEN {<<>>}
    ELSE {<<x>> \o t : x \in S, t \in SeqsOfLen(S, n - 1)}

\* Eigenvalue arrays: zero, negative and positive entries, repeats allowed.
TruncValues == UNION {SeqsOfLen({Num(v) : v \in -1..MaxVal}, n) : n \in 1..MaxLen}

\* Two n x n eigenvector arrays with pairwise distinct non-zero columns.
TruncVectors(n) ==
    {Identity(n), [i \in 1..n |-> [j \in 1..n |-> Num(i + n * (j - 1))]]}

TruncInputs ==
    UNION {[values : {v}, vectors : TruncVectors(Len(v)), rank : 1..Len(v),
            rcond : {Num(0), Num(1)}] : v \in TruncValues}

InitTrunc == /\ pc = "call"
             /\ inp \in TruncInputs
             /\ out = NoOut

CallRankReveal ==
    /\ pc = "call"
    /\ out' = rank_reveal(inp.values, inp.vectors, inp.rank, inp.rcond)
    /\ pc' = "done"
    /\ UNCHANGED inp

NextTrunc == CallRankReveal

SpecTrunc == InitTrunc /\ [][NextTrunc]_vars

\* The index sets of the `rank` largest entries of values.
TopSets(values, rank) ==
    {T \in SUBSET (1..Len(values)) :
        /\ Cardinality(T) = rank
        /\ \A i \in T : \A j \in (1..Len(values)) \ T : ~Lt(values[i], values[j])}

\* C1: _rank_reveal returns exactly `rank` columns: the first s are the
\* vector columns of the selected top-`rank` values strictly above rcond (s
\* is also the length of the returned values), the other rank - s columns
\* are zero, and no returned value is <= rcond.
C1_RankRevealPads ==
    pc = "done" =>
        \E T \in TopSets(inp.values, inp.rank) :
            LET kept == {i \in T : Gt(inp.values[i], inp.rcond)}
                s == Cardinality(kept)
            IN /\ Cols(out.V) = inp.rank
               /\ Rows(out.V) = Rows(inp.vectors)
               /\ Len(out.S) = s
               /\ \E f \in [1..s -> kept] :
                     /\ \A i \in kept : \E j \in 1..s : f[j] = i
                     /\ \A j \in 1..s :
                           /\ out.S[j] = inp.values[f[j]]
                           /\ Column(out.V, j) = Column(inp.vectors, f[j])
               /\ \A j \in (s + 1)..inp.rank : IsZeroCol(out.V, j)
               /\ \A j \in 1..s : Gt(out.S[j], inp.rcond)

\* A truncating call: some selected value was dropped and some survived.
C1_Witness ==
    /\ pc = "done"
    /\ out.warned
    /\ Len(out.S) >= 1
    /\ Len(out.S) < inp.rank
    /\ \E i \in 1..Len(inp.values) : Lt(inp.values[i], Num(0))

----------------------------------------------------------------------------
(* Predictor *)

\* np.linalg.multi_dot: the product of the matrices of a non-empty list.
RECURSIVE multi_dot(_)
multi_dot(ms) ==
    IF Len(ms) = 1 THEN ms[1]
    ELSE MatMul(multi_dot(SubSeq(ms, 1, Len(ms) - 1)), ms[Len(ms)])

\* The binary decomposition of np.linalg.matrix_power for n > 3: z runs over
\* the repeated squares of a, result collects those of the set bits of n.
RECURSIVE PowerLoop(_, _, _, _)
PowerStep(a, z, result, n) ==
    PowerLoop(a, z,
              IF n % 2 = 1
              THEN (IF Len(result) = 0 THEN z ELSE MatMul(result, z))
              ELSE result,
              n \div 2)

PowerLoop(a, z, result, n) ==
    IF n = 0 THEN result
    ELSE PowerStep(a, IF Len(z) = 0 THEN a ELSE MatMul(z, z), result, n)

\* np.linalg.matrix_power(a, n) for n >= 0
matrix_power(a, n) ==
    IF n = 0 THEN Identity(Rows(a))
    ELSE IF n = 1 THEN a
    ELSE IF n = 2 THEN MatMul(a, a)
    ELSE IF n = 3 THEN MatMul(MatMul(a, a), a)
    ELSE PowerLoop(a, <<>>, <<>>, n)

\* predict with the power taken num_steps times (an off-by-one horizon).
predict_off_by_one(num_steps, U, C_XY, phi_Xin, phi_X, obs_train_Y) ==
    LET num_train == Rows(phi_X)
        phi_Xin_dot_U == MatMul(phi_Xin, U)
        U_C_XY_U == multi_dot(<<Transpose(U), C_XY, U>>)
        U_phi_X_obs_Y == Scale(Recip(Num(num_train)),
                               multi_dot(<<Transpose(U), Transpose(phi_X), obs_train_Y>>))
        M == matrix_power(U_C_XY_U, num_steps)
    IN multi_dot(<<phi_Xin_dot_U, M, U_phi_X_obs_Y>>)

predict(num_steps, U, C_XY, phi_Xin, phi_X, obs_train_Y) ==
    LET num_train == Rows(phi_X)
        phi_Xin_dot_U == MatMul(phi_Xin, U)
        U_C_XY_U == multi_dot(<<Transpose(U), C_XY, U>>)
        U_phi_X_obs_Y == Scale(Recip(Num(num_train)),
                               multi_dot(<<Transpose(U), Transpose(phi_X), obs_train_Y>>))
        M == matrix_power(U_C_XY_U, num_steps - 1)
    IN multi_dot(<<phi_Xin_dot_U, M, U_phi_X_obs_Y>>)

----------------------------------------------------------------------------
(* Specification SpecPredict: calls of predict *)

MaxSteps == 5

IntMat(m) == [i \in 1..Len(m) |-> [j \in 1..Len(m[i]) |-> Num(m[i][j])]]

\* All d x c matrices with entries in S.
MatsOver(S, d, c) == SeqsOfLen(SeqsOfLen(S, c), d)

\* Projection matrices (d x rank), d = 2, of rank 1 and 2.
PredictU == {IntMat(<<<<1>>, <<0>>>>), IntMat(<<<<1>>, <<1>>>>),
             IntMat(<<<<1, 0>>, <<0, 1>>>>), IntMat(<<<<1, 1>>, <<0, 2>>>>)}

PredictInputs ==
    [num_steps : 1..MaxSteps,
     U : PredictU,
     C_XY : MatsOver({Num(-1), Num(0), Num(1)}, 2, 2),
     phi_Xin : {IntMat(<<<<1, 0>>>>), IntMat(<<<<1, 2>>, <<0, 1>>>>)},
     phi_X : {IntMat(<<<<1, 1>>>>), IntMat(<<<<1, 0>>, <<1, 2>>>>),
              IntMat(<<<<1, 0>>, <<0, 1>>, <<1, 1>>>>)},
     obs : {1, 2}]

\* The observable on the training outputs: n_train x 1.
ObsOf(i) == [j \in 1..Rows(i.phi_X) |-> <<Num(i.obs * j - 1)>>]

InitPredict == /\ pc = "call"
               /\ inp \in PredictInputs
               /\ out = NoOut

CallPredict ==
    /\ pc = "call"
    /\ out' = [forecast |-> predict(inp.num_steps, inp.U, inp.C_XY, inp.phi_Xin,
                                    inp.phi_X, ObsOf(inp))]
    /\ pc' = "done"
    /\ UNCHANGED inp

NextPredict == CallPredict

SpecPredict == InitPredict /\ [][NextPredict]_vars

\* M^n as the n-fold product, M^0 = I.
RECURSIVE RefPow(_, _)
RefPow(m, n) == IF n = 0 THEN Identity(Rows(m)) ELSE MatMul(m, RefPow(m, n - 1))

\* phi_Xin U M^(n-1) (U^T phi_X^T obs / n_train), associated from the right
\* and divided by n_train at the end.
RefOperator(i) == MatMul(Transpose(i.U), MatMul(i.C_XY, i.U))
RefCoupling(i) == MatMul(Transpose(i.U), MatMul(Transpose(i.phi_X), ObsOf(i)))
DivAll(m, c) == [r \in 1..Rows(m) |-> [j \in 1..Cols(m) |-> Div(m[r][j], c)]]

RefForecast(i) ==
    DivAll(MatMul(i.phi_Xin,
                  MatMul(i.U, MatMul(RefPow(RefOperator(i), i.num_steps - 1),
                                     RefCoupling(i)))),
           Num(Rows(i.phi_X)))

RefReadout(i) ==
    MatMul(MatMul(i.phi_Xin, i.U), Scale(Rat(1, Rows(i.phi_X)), RefCoupling(i)))

\* C2: predict returns phi_Xin U M^(num_steps-1) (U^T phi_X^T obs / n_train)
\* with M = U^T C_XY U; for num_steps = 1 this is the direct linear readout
\* phi_Xin U (U^T phi_X^T obs / n_train).
C2_PredictFormula ==
    pc = "done" =>
        /\ out.forecast = RefForecast(inp)
        /\ inp.num_steps = 1 => out.forecast = RefReadout(inp)

\* A forecast over at least four powers of a non-trivial operator.
C2_Witness ==
    /\ pc = "done"
    /\ inp.num_steps >= 5
    /\ Rows(inp.phi_X) >= 2
    /\ \E r \in 1..Rows(out.forecast) :
          IsFinite(out.forecast[r][1]) /\ out.forecast[r][1].d > 1

----------------------------------------------------------------------------
(* Dense eigensolvers on matrices of order 1 and 2, in closed form *)

Trace2(m) == Add(m[1][1], m[2][2])
Det2(m) == Sub(Mul(m[1][1], m[2][2]), Mul(m[1][2], m[2][1]))
Disc2(m) == Sub(Mul(Trace2(m), Trace2(m)), Mul(Num(4), Det2(m)))

\* sqrt of a real x, imaginary for x < 0.
CSqrt(x) == IF IsReal(x) /\ x.a < 0 THEN Mul(Cpx(0, 1), Sqrt(Neg(x))) ELSE Sqrt(x)

\* The spectrum is made of (Gaussian) rationals.
RationalSpectrum(m) ==
    \/ Rows(m) = 1
    \/ Rows(m) = 2 /\ CSqrt(Disc2(m)).r = 1

\* The two roots (t + s)/2 and (t - s)/2 of the characteristic polynomial,
\* t the trace and s the square root of the discriminant; for a complex pair
\* the root of positive imaginary part comes first.
RootsOf(t, s) == <<Div(Add(t, s), Num(2)), Div(Sub(t, s), Num(2))>>
Roots2(m) == RootsOf(Trace2(m), CSqrt(Disc2(m)))

NormalizedBy(v, n) == [i \in 1..Len(v) |-> Div(v[i], n)]
Normalized(v) == NormalizedBy(v, Sqrt(SumSeq([i \in 1..Len(v) |-> AbsSq(v[i])])))

IsZeroVec(v) == \A i \in 1..Len(v) : IsZero(v[i])
UnitVec(j) == <<IF j = 1 THEN One ELSE Zero, IF j = 2 THEN One ELSE Zero>>

EigVecPick(v1, v2, j) ==
    IF ~IsZeroVec(v1) THEN Normalized(v1)
    ELSE IF ~IsZeroVec(v2) THEN Normalized(v2)
    ELSE UnitVec(j)

\* A unit eigenvector of the 2 x 2 matrix m for its eigenvalue w: a solution
\* of the first or of the second row of (m - w I) v = 0; when m is w times
\* the identity, the j-th unit vector.
EigVec2(m, w, j) ==
    EigVecPick(<<m[1][2], Sub(w, m[1][1])>>, <<Sub(w, m[2][2]), m[2][1]>>, j)

ColsToMat(cs) == [i \in 1..Len(cs[1]) |-> [j \in 1..Len(cs) |-> cs[j][i]]]
ConjSeq(v) == [i \in 1..Len(v) |-> Conj(v[i])]

EigOf(M, Mt, w) ==
    [values |-> w,
     vl |-> ColsToMat(<<EigVec2(Mt, Conj(w[1]), 1), EigVec2(Mt, Conj(w[2]), 2)>>),
     vr |-> ColsToMat(<<EigVec2(M, w[1], 1), EigVec2(M, w[2], 2)>>)]

EigOrdered(roots, order) == IF order = 1 THEN roots ELSE Reverse(roots)

\* scipy.linalg.eig(M, left=True, right=True) for a real M of order 1 or 2
\* with a rational spectrum: M vr[:, i] = w[i] vr[:, i] and
\* M^H vl[:, i] = conj(w[i]) vl[:, i], unit columns.  `order` is the order
\* in which the library lists the two eigenvalues.
eig(M, order) ==
    IF Rows(M) = 1
    THEN [values |-> <<M[1][1]>>, vl |-> <<<<One>>>>, vr |-> <<<<One>>>>]
    ELSE EigOf(M, Transpose(M), EigOrdered(Roots2(M), order))

----------------------------------------------------------------------------
(* SpectralAnalyzer *)

r_perm_of(values) == argsort(values)

\* The left permutation computed from the values themselves.
l_perm_unconjugated(values) == argsort(values)

l_perm_of(values) == argsort(ConjSeq(values))

\* The biorthogonalizing division with zero denominators replaced by one.
biorthogonalize_masked(lv, l_norm) ==
    DivCols(lv, [j \in 1..Len(l_norm) |-> IF IsZero(l_norm[j]) THEN One ELSE l_norm[j]])

\* lv = lv / l_norm
biorthogonalize(lv, l_norm) == DivCols(lv, l_norm)

\* The right eigenvectors left as U @ rv, without the division by their norms.
normalize_rv_skipped(rv) == rv

\* rv = rv / np.linalg.norm(rv, axis=0)
normalize_rv(rv) == DivCols(rv, ColNorms(rv))

\* The stages of estimator_eig, last first.  rv_norm and l_norm are the two
\* divisors it computes; they are returned with the triplets.
eig_return(values, lv1, rv, rv_norm, l_norm) ==
    [values |-> values, lv |-> biorthogonalize(lv1, l_norm), rv |-> rv,
     rv_norm |-> rv_norm, l_norm |-> l_norm]

\* l_norm = np.sum(lv * rv, axis=0)
eig_pair(values, lv1, rv, rv_norm) ==
    eig_return(values, lv1, rv, rv_norm, ColSums(Hadamard(lv1, rv)))

eig_normalize(values, lv1, rv1) ==
    eig_pair(values, lv1, normalize_rv(rv1), ColNorms(rv1))

\* values[r_perm]; rv = (U @ rv)[:, r_perm]; lv = (C_XY.T @ U @ lv)[:, l_perm]
eig_permute(U, C_XY, e, r_perm, l_perm) ==
    eig_normalize(TakeSeq(e.values, r_perm),
                  TakeCols(multi_dot(<<Transpose(C_XY), U, e.vl>>), l_perm),
                  TakeCols(MatMul(U, e.vr), r_perm))

eig_sort(U, C_XY, e) ==
    eig_permute(U, C_XY, e, r_perm_of(e.values), l_perm_of(e.values))

estimator_eig(U, C_XY, order) ==
    eig_sort(U, C_XY, eig(multi_dot(<<Transpose(U), C_XY, U>>), order))

----------------------------------------------------------------------------
(* Specification SpecEig: calls of estimator_eig *)

\* Projection matrices (2 x rank): full rank, rank one, a zero-padded column
\* as _rank_reveal leaves it, a non-orthogonal one and a rescaled one.
EigU == {IntMat(<<<<1, 0>>, <<0, 1>>>>),
         IntMat(<<<<1>>, <<0>>>>),
         IntMat(<<<<1, 0>>, <<0, 0>>>>),
         IntMat(<<<<1, 1>>, <<0, 2>>>>),
         <<<<Rat(1, 2), Zero>>, <<Zero, One>>>>}

EigInputs ==
    {i \in [U : EigU,
            C_XY : MatsOver({Num(v) : v \in -1..2}, 2, 2),
            order : {1, 2}] :
        RationalSpectrum(multi_dot(<<Transpose(i.U), i.C_XY, i.U>>))}

InitEig == /\ pc = "call"
           /\ inp \in EigInputs
           /\ out = NoOut

CallEstimatorEig ==
    /\ pc = "call"
    /\ out' = estimator_eig(inp.U, inp.C_XY, inp.order)
    /\ pc' = "done"
    /\ UNCHANGED inp

NextEig == CallEstimatorEig

SpecEig == InitEig /\ [][NextEig]_vars

Modes(o) == 1..Len(o.values)

\* sum(lv[:, i] * rv[:, i]) and the Euclidean norm of rv[:, i]
Pairing(o, i) == SumSeq([k \in 1..Rows(o.lv) |-> Mul(o.lv[k][i], o.rv[k][i])])
RvNorm(o, i) == Sqrt(SumSeq([k \in 1..Rows(o.rv) |-> AbsSq(o.rv[k][i])]))

\* Mode i is regular: its right eigenvector U @ rv[:, i] is not the zero
\* vector and its biorthogonalization denominator is a non-zero number.
Regular(o, i) ==
    /\ IsFinite(o.rv_norm[i]) /\ ~IsZero(o.rv_norm[i])
    /\ IsFinite(o.l_norm[i]) /\ ~IsZero(o.l_norm[i])

C10_DegenerateSurfaced ==
    pc = "done" =>
        \A i \in Modes(out) :
            IsZero(out.l_norm[i]) =>
                \A k \in 1..Rows(out.lv) : ~IsFinite(out.lv[k][i])

\* A mode with a zero denominator and a non-zero left eigenvector.
C10_Witness ==
    /\ pc = "done"
    /\ \E i \in Modes(out) :
          /\ IsZero(out.l_norm[i])
          /\ \E k \in 1..Rows(out.lv) : out.lv[k][i] = Inf

----------------------------------------------------------------------------
(* Specification SpecSort: the two sort permutations of estimator_eig and  *)
(* estimator_modes, on the eigenvalue arrays eig returns for a real M      *)

MaxSpec == 4

\* Gaussian integers near the origin.
SpecPoints == {Cpx(re, im) : re \in 0..1, im \in -1..1}

Count(v, x) == Cardinality({i \in 1..Len(v) : v[i] = x})

\* The spectra of real matrices: closed under conjugation with multiplicity,
\* listed in any order.
RealSpectra ==
    {v \in UNION {SeqsOfLen(SpecPoints, n) : n \in 1..MaxSpec} :
        \A x \in SpecPoints : Count(v, x) = Count(v, Conj(x))}

InitSort == /\ pc = "call"
            /\ inp \in [values : RealSpectra]
            /\ out = NoOut

\* estimator_eig: r_perm, l_perm and values = values[r_perm]
SortEig ==
    /\ pc = "call"
    /\ out' = [fn |-> "estimator_eig",
               r_perm |-> r_perm_of(inp.values),
               l_perm |-> l_perm_of(inp.values),
               values |-> TakeSeq(inp.values, r_perm_of(inp.values))]
    /\ pc' = "done"
    /\ UNCHANGED inp

\* estimator_modes: r_perm and l_perm; the values are left as eig gave them
SortModes ==
    /\ pc = "call"
    /\ out' = [fn |-> "estimator_modes",
               r_perm |-> r_perm_of(inp.values),
               l_perm |-> l_perm_of(inp.values),
               values |-> inp.values]
    /\ pc' = "done"
    /\ UNCHANGED inp

NextSort == SortEig \/ SortModes

SpecSort == InitSort /\ [][NextSort]_vars

IsPermutation(p, n) ==
    /\ Len(p) = n
    /\ \A i \in 1..n : \E j \in 1..n : p[j] = i

\* C8: for a spectrum closed under conjugation, at every position i the
\* conjugate of the eigenvalue of the left eigenvector placed at i
\* (index l_perm[i]) is the eigenvalue of the right eigenvector placed at i
\* (index r_perm[i]), which is the i-th sorted eigenvalue.
C8_PermutationsAlign ==
    pc = "done" =>
        /\ IsPermutation(out.r_perm, Len(inp.values))
        /\ IsPermutation(out.l_perm, Len(inp.values))
        /\ \A i \in 1..Len(inp.values) :
              /\ Conj(inp.values[out.l_perm[i]]) = inp.values[out.r_perm[i]]
              /\ out.fn = "estimator_eig" => out.values[i] = inp.values[out.r_perm[i]]
        /\ \A i \in 1..(Len(inp.values) - 1) :
              ~LexLt(inp.values[out.r_perm[i + 1]], inp.values[out.r_perm[i]])

\* A repeated complex pair: the two permutations differ at every position.
C8_Witness ==
    /\ pc = "done"
    /\ Len(inp.values) = 4
    /\ \E x \in SpecPoints : x.b # 0 /\ Count(inp.values, x) = 2
    /\ \A i \in 1..4 : out.l_perm[i] # out.r_perm[i]

----------------------------------------------------------------------------
(* Symmetric eigensolvers on matrices of order 1 and 2, in closed form *)

Solved(values, vectors) ==
    [raised |-> "none", values |-> values, vectors |-> vectors]
Failed(kind) == [raised |-> kind, values |-> <<>>, vectors |-> <<>>]

IsDiagonal(m) == Rows(m) = 1 \/ (IsZero(m[1][2]) /\ IsZero(m[2][1]))

\* Positive definiteness of a symmetric matrix, by its leading minors.
IsPosDef(m) ==
    IF Rows(m) = 1 THEN Gt(m[1][1], Zero)
    ELSE Gt(m[1][1], Zero) /\ Gt(Det2(m), Zero)

\* a - w b
Pencil(a, b, w) == MatAdd(a, Scale(Neg(w), b))

\* det(a - w b) = det(b) w^2 - c w + det(a): the coefficient c and the
\* discriminant c^2 - 4 det(a) det(b).
PencilMid(a, b) ==
    Sub(Add(Mul(a[1][1], b[2][2]), Mul(a[2][2], b[1][1])),
        Add(Mul(a[1][2], b[2][1]), Mul(a[2][1], b[1][2])))

PencilDiscOf(c, a, b) == Sub(Mul(c, c), Mul(Num(4), Mul(Det2(a), Det2(b))))
PencilDisc(a, b) == PencilDiscOf(PencilMid(a, b), a, b)

\* The roots (c - s)/(2 det b) <= (c + s)/(2 det b), s the square root of
\* the discriminant.
PencilRootsOf(c, s, db) ==
    <<Div(Sub(c, s), Mul(Num(2), db)), Div(Add(c, s), Mul(Num(2), db))>>
PencilRoots(a, b) ==
    PencilRootsOf(PencilMid(a, b), Sqrt(PencilDisc(a, b)), Det2(b))

\* v / sqrt(v^T b v)
MetricNormalized(v, b) ==
    NormalizedBy(v, Sqrt(SumSeq([i \in 1..Len(v) |->
        Mul(v[i], SumSeq([l \in 1..Len(v) |-> Mul(b[i][l], v[l])]))])))

\* The eigenvector of the pencil for its eigenvalue w, of unit b-norm; when
\* a = w b, the j-th unit vector scaled to unit b-norm.
PencilVec(a, b, w, j) == MetricNormalized(EigVec2(Pencil(a, b, w), Zero, j), b)

EighPencil(a, b, w) ==
    Solved(w, ColsToMat(<<PencilVec(a, b, w[1], 1), PencilVec(a, b, w[2], 2)>>))

eigh_generalized(a, b) ==
    IF ~IsPosDef(b) THEN Failed("LinAlgError")
    ELSE IF Rows(a) = 1
         THEN Solved(<<Div(a[1][1], b[1][1])>>, <<<<PowNegHalf(b[1][1])>>>>)
    ELSE EighPencil(a, b, PencilRoots(a, b))

\* scipy.linalg.eigh(a, b) for symmetric a and b (b = <<>> stands for None,
\* the standard problem): eigenvalues in ascending order, eigenvectors v
\* with v^T b v = 1; LinAlgError when b is not positive definite.
eigh(a, b) ==
    eigh_generalized(a, IF b = <<>> THEN Identity(Rows(a)) ELSE b)

\* The eigenvalue of largest magnitude out of two; `order` settles a tie.
MagnitudeIdx(values, order) ==
    IF Lt(AbsSq(values[1]), AbsSq(values[2])) THEN 2
    ELSE IF Lt(AbsSq(values[2]), AbsSq(values[1])) THEN 1
    ELSE order

TakePair(e, i) == Solved(<<e.values[i]>>, TakeCols(e.vectors, <<i>>))

\* The k < n eigenpairs of largest magnitude (which='LM'), n = 2.
eigsh_converged(e, k, order) ==
    IF e.raised # "none" THEN e ELSE TakePair(e, MagnitudeIdx(e.values, order))

\* An iterative solver that refuses a request of k >= n eigenpairs.
eigsh_strict(A, k, M, order) ==
    IF k <= 0 \/ k >= Rows(A) THEN Failed("ValueError")
    ELSE eigsh_converged(eigh(A, M), k, order)

\* scipy.sparse.linalg.eigsh(A, k, M) on a dense A of order n: ValueError
\* for k <= 0; for k >= n a RuntimeWarning and the result of eigh(A, b=M);
\* otherwise the k eigenpairs of largest magnitude.
eigsh(A, k, M, order) ==
    IF k <= 0 THEN Failed("ValueError")
    ELSE IF k >= Rows(A) THEN eigh(A, M)
    ELSE eigsh_converged(eigh(A, M), k, order)

----------------------------------------------------------------------------
(* kooplearn._src.linalg *)

\* w ** exponent, for the exponents the fitters pass.
Pow(w, exponent) ==
    CASE exponent = Rat(-1, 2) -> PowNegHalf(w)
      [] exponent = Num(-1) -> Recip(w)

PowOrZero(w, exponent) == IF Gt(w, Zero) THEN Pow(w, exponent) ELSE Zero

spd_neg_pow_of(e, exponent) ==
    MatMul(MatMul(e.vectors,
                  Diag([j \in 1..Len(e.values) |-> PowOrZero(e.values[j], exponent)])),
           Transpose(e.vectors))

\* spd_neg_pow(M, exponent): M ** exponent of a symmetric positive
\* semi-definite M by eigendecomposition, the eigenvalues that are not above
\* zero being zeroed instead of raised.
spd_neg_pow(M, exponent) == spd_neg_pow_of(eigh(M, <<>>), exponent)

weighted_norm_of(A, MA) ==
    [j \in 1..Cols(A) |->
        Sqrt(SumSeq([i \in 1..Rows(A) |-> Mul(Conj(A[i][j]), MA[i][j])]))]

\* weighted_norm(A, M): the M-weighted norm sqrt(a^H M a) of each column.
weighted_norm(A, M) == weighted_norm_of(A, MatMul(M, A))

----------------------------------------------------------------------------
(* Fitters *)

\* The outcome of a fitter: the exception raised or the matrix returned,
\* with the eigenvalues selected on the way and the computations performed
\* up to the return or the raise.
Returned(U, values, steps) ==
    [raised |-> "none", U |-> U, values |-> values, steps |-> steps]
Raised(kind, steps) ==
    [raised |-> kind, U |-> <<>>, values |-> <<>>, steps |-> steps]

\* The default of rcond, 2.2e-16: no eigenvalue enumerated below lies
\* strictly between zero and it, so that S > rcond is S > 0.
DefaultRcond == Zero

\* C_X + tikhonov_reg * np.identity(dim)
regularized(C_X, tikhonov_reg) ==
    MatAdd(C_X, Scale(tikhonov_reg, Identity(Rows(C_X))))

\* vectors @ np.diag(_norms ** (-1.0))
rrr_rescale(vectors, norms, values) ==
    Returned(MatMul(vectors, Diag([j \in 1..Len(norms) |-> Pow(norms[j], Num(-1))])),
             values, <<"regularize", "eigensolve", "topk", "weighted_norm">>)

rrr_selected(vectors, reg_input_covariance, values) ==
    rrr_rescale(vectors, weighted_norm(vectors, reg_input_covariance), values)

\* The selection made through _rank_reveal with the default tolerance.
rrr_select_truncated(e, rank, reg_input_covariance) ==
    rrr_selected(rank_reveal(e.values, e.vectors, rank, DefaultRcond).V,
                 reg_input_covariance,
                 topk(e.values, rank).values)

\* top_eigs = topk(values, rank); vectors = vectors[:, top_eigs.indices]
rrr_top(e, top_eigs, reg_input_covariance) ==
    rrr_selected(TakeCols(e.vectors, top_eigs.indices), reg_input_covariance,
                 top_eigs.values)

rrr_select(e, rank, reg_input_covariance) ==
    rrr_top(e, topk(e.values, rank), reg_input_covariance)

rrr_solved(e, rank, reg_input_covariance) ==
    IF e.raised # "none" THEN Raised(e.raised, <<"regularize", "eigensolve">>)
    ELSE rrr_select(e, rank, reg_input_covariance)

rrr_regularized(reg_input_covariance, crcov, rank, svd_solver, order) ==
    rrr_solved(IF svd_solver = "arnoldi"
               THEN eigsh(crcov, rank + 3, reg_input_covariance, order)
               ELSE eigh(crcov, reg_input_covariance),
               rank, reg_input_covariance)

noreg_return(rsqrt_C_X, r) ==
    Returned(MatMul(rsqrt_C_X, r.V), r.S, <<"spd_neg_pow", "eigensolve", "rank_reveal">>)

noreg_solved(rsqrt_C_X, e, rank, rcond) ==
    IF e.raised # "none" THEN Raised(e.raised, <<"spd_neg_pow", "eigensolve">>)
    ELSE noreg_return(rsqrt_C_X, rank_reveal(e.values, e.vectors, rank, rcond))

noreg_crcov(rsqrt_C_X, crcov, rank, svd_solver, rcond, order) ==
    noreg_solved(rsqrt_C_X,
                 IF svd_solver = "arnoldi"
                 THEN eigsh(crcov, rank + 3, <<>>, order)
                 ELSE eigh(crcov, <<>>),
                 rank, rcond)

\* B = rsqrt_C_X @ C_XY; _crcov = B @ B.T
noreg_whitened(rsqrt_C_X, B, rank, svd_solver, rcond, order) ==
    noreg_crcov(rsqrt_C_X, MatMul(B, Transpose(B)), rank, svd_solver, rcond, order)

noreg_whiten(rsqrt_C_X, C_XY, rank, svd_solver, rcond, order) ==
    noreg_whitened(rsqrt_C_X, MatMul(rsqrt_C_X, C_XY), rank, svd_solver, rcond, order)

fit_reduced_rank_regression_noreg(C_X, C_XY, rank, svd_solver, rcond, order) ==
    noreg_whiten(spd_neg_pow(C_X, Rat(-1, 2)), C_XY, rank, svd_solver, rcond, order)

\* fit_reduced_rank_regression(C_X, C_XY, tikhonov_reg, rank, svd_solver);
\* `order` is the choice the iterative solver makes between eigenvalues of
\* equal magnitude.
fit_reduced_rank_regression(C_X, C_XY, tikhonov_reg, rank, svd_solver, order) ==
    IF IsZero(tikhonov_reg)
    THEN fit_reduced_rank_regression_noreg(C_X, C_XY, rank, svd_solver,
                                           DefaultRcond, order)
    ELSE rrr_regularized(regularized(C_X, tikhonov_reg),
                         MatMul(C_XY, Transpose(C_XY)), rank, svd_solver, order)

\* np.diag(values ** (-1.0)), in place of the inverse square roots.
rinv_evals(values, rank) ==
    Diag([j \in 1..Len(values) |-> Pow(values[j], Num(-1))]
         \o [j \in 1..(rank - Len(values)) |-> Zero])

\* np.diag(np.concatenate([values ** (-0.5), np.zeros(rank - values.shape[0])]))
rsqrt_evals(values, rank) ==
    Diag([j \in 1..Len(values) |-> Pow(values[j], Rat(-1, 2))]
         \o [j \in 1..(rank - Len(values)) |-> Zero])

pcr_return(r, rank) ==
    Returned(MatMul(r.V, rsqrt_evals(r.S, rank)), r.S,
             <<"regularize", "eigensolve", "rank_reveal">>)

pcr_solved(e, rank, rcond) ==
    IF e.raised # "none" THEN Raised(e.raised, <<"regularize", "eigensolve">>)
    ELSE pcr_return(rank_reveal(e.values, e.vectors, rank, rcond), rank)

pcr_regularized(reg_input_covariance, rank, svd_solver, rcond, order) ==
    pcr_solved(IF svd_solver = "arnoldi"
               THEN eigsh(reg_input_covariance, rank, <<>>, order)
               ELSE eigh(reg_input_covariance, <<>>),
               rank, rcond)

\* assert rank <= dim
pcr_ranked(C_X, tikhonov_reg, rank, svd_solver, rcond, order) ==
    IF rank > Rows(C_X) THEN Raised("AssertionError", <<>>)
    ELSE pcr_regularized(regularized(C_X, tikhonov_reg), rank, svd_solver,
                         rcond, order)

\* fit_principal_component_regression(C_X, tikhonov_reg, rank, svd_solver,
\* rcond); rank is <<>> for None and <<r>> for the integer r.
fit_principal_component_regression(C_X, tikhonov_reg, rank, svd_solver, rcond, order) ==
    pcr_ranked(C_X, tikhonov_reg, IF rank = <<>> THEN Rows(C_X) ELSE rank[1],
               svd_solver, rcond, order)

----------------------------------------------------------------------------
(* Specification SpecFit: calls of the exact fitters *)

MaxReg == 1
MaxRank == 3
MaxRcond == 1

\* Input covariances, symmetric positive definite, of order 1 and 2.
FitCov == {IntMat(<<<<1>>>>), IntMat(<<<<4>>>>),
           IntMat(<<<<1, 0>>, <<0, 1>>>>), IntMat(<<<<4, 0>>, <<0, 4>>>>),
           IntMat(<<<<1, 0>>, <<0, 4>>>>), IntMat(<<<<4, 0>>, <<0, 1>>>>),
           IntMat(<<<<2, 1>>, <<1, 2>>>>), IntMat(<<<<5, 4>>, <<4, 5>>>>)}

\* Cross-covariances.
FitCross == {IntMat(<<<<1>>>>), IntMat(<<<<0>>>>), IntMat(<<<<2>>>>),
             IntMat(<<<<1, 0>>, <<0, 1>>>>), IntMat(<<<<1, 0>>, <<0, 0>>>>),
             IntMat(<<<<0, 1>>, <<2, 0>>>>), IntMat(<<<<1, 1>>, <<1, 1>>>>),
             IntMat(<<<<1, 1>>, <<0, 1>>>>)}

Solvers == {"arnoldi", "full"}

\* The eigenvalues of the pencil are rational, and its eigenvectors are
\* determined up to sign or b is diagonal.
RationalPencil(a, b) ==
    \/ Rows(a) = 1
    \/ /\ IsRational(Sqrt(PencilDisc(a, b)))
       /\ IsZero(PencilDisc(a, b)) => IsDiagonal(b)

RationalSymmetric(a) == RationalPencil(a, Identity(Rows(a)))

\* The inverse square root of C_X is a rational matrix.
Whitenable(C_X) ==
    /\ RationalSymmetric(C_X)
    /\ \A j \in 1..Rows(C_X) : IsRational(Sqrt(eigh(C_X, <<>>).values[j]))

WhitenedCrcovOf(B) == MatMul(B, Transpose(B))
WhitenedCrcov(C_X, C_XY) ==
    WhitenedCrcovOf(MatMul(spd_neg_pow(C_X, Rat(-1, 2)), C_XY))

RegOf(i) == regularized(i.C_X, Num(i.tikhonov_reg))
CrcovOf(i) == MatMul(i.C_XY, Transpose(i.C_XY))

\* The calls whose numbers stay within the exact arithmetic above.
RRRRepresentable(i) ==
    /\ Rows(i.C_X) = Rows(i.C_XY)
    /\ IF i.tikhonov_reg = 0
       THEN Whitenable(i.C_X) /\ RationalSymmetric(WhitenedCrcov(i.C_X, i.C_XY))
       ELSE IsPosDef(RegOf(i)) => RationalPencil(CrcovOf(i), RegOf(i))

PCRRepresentable(i) == RationalSymmetric(RegOf(i))

RRRInputs ==
    {i \in [fitter : {"rrr"}, C_X : FitCov, C_XY : FitCross,
            tikhonov_reg : -MaxReg..MaxReg, rank : 0..MaxRank,
            svd_solver : Solvers] : RRRRepresentable(i)}

PCRInputs ==
    {i \in [fitter : {"pcr"}, C_X : FitCov, tikhonov_reg : -MaxReg..MaxReg,
            rank : {<<>>} \cup {<<r>> : r \in 0..MaxRank},
            svd_solver : Solvers, rcond : 0..MaxRcond] : PCRRepresentable(i)}

InitFit == /\ pc = "call"
           /\ inp \in RRRInputs \/ inp \in PCRInputs
           /\ out = NoOut

CallFitRRR ==
    /\ pc = "call"
    /\ inp.fitter = "rrr"
    /\ \E order \in 1..2 :
          out' = fit_reduced_rank_regression(inp.C_X, inp.C_XY, Num(inp.tikhonov_reg),
                                             inp.rank, inp.svd_solver, order)
    /\ pc' = "done"
    /\ UNCHANGED inp

CallFitPCR ==
    /\ pc = "call"
    /\ inp.fitter = "pcr"
    /\ \E order \in 1..2 :
          out' = fit_principal_component_regression(inp.C_X, Num(inp.tikhonov_reg),
                                                    inp.rank, inp.svd_solver,
                                                    Num(inp.rcond), order)
    /\ pc' = "done"
    /\ UNCHANGED inp

NextFit == CallFitRRR \/ CallFitPCR

SpecFit == InitFit /\ [][NextFit]_vars

Dim(i) == Rows(i.C_X)
FitRank(i) ==
    IF i.fitter = "rrr" THEN i.rank
    ELSE IF i.rank = <<>> THEN Rows(i.C_X) ELSE i.rank[1]

\* U^T C U
Gram(U, C) == MatMul(Transpose(U), MatMul(C, U))

\* The FitRank largest eigenvalues of the regularized covariance are above
\* rcond.
SelectedAboveRcond(i) ==
    Gt(eigh(RegOf(i), <<>>).values[Dim(i) - FitRank(i) + 1], Num(i.rcond))

PCRCall ==
    /\ pc = "done"
    /\ inp.fitter = "pcr"
    /\ FitRank(inp) \in 1..Dim(inp)
    /\ inp.tikhonov_reg >= 0

\* C4 as stated: for any SPD C_X and rank r <= d,
\* fit_principal_component_regression returns U of shape (d, r) with
\* U^T (C_X + reg I) U the r x r identity, for reg = 0 and reg > 0.
C4_Original ==
    PCRCall =>
        /\ out.raised = "none"
        /\ Shape(out.U) = <<Dim(inp), FitRank(inp)>>
        /\ Gram(out.U, RegOf(inp)) = Identity(FitRank(inp))

\* C4: for any SPD C_X, rank r <= d and reg >= 0 such that the r largest
\* eigenvalues of C_X + reg I are above rcond,
\* fit_principal_component_regression returns U of shape (d, r) with
\* U^T (C_X + reg I) U the r x r identity; the shape is (d, r) in any case.
C4_Whitened ==
    PCRCall =>
        /\ out.raised = "none"
        /\ Shape(out.U) = <<Dim(inp), FitRank(inp)>>
        /\ SelectedAboveRcond(inp) =>
              Gram(out.U, RegOf(inp)) = Identity(FitRank(inp))

\* Two principal components of a non-diagonal regularized covariance,
\* found by the iterative solver, with irrational entries.
C4_Witness ==
    /\ PCRCall
    /\ inp.svd_solver = "arnoldi"
    /\ FitRank(inp) = 2
    /\ inp.tikhonov_reg > 0
    /\ ~IsDiagonal(inp.C_X)
    /\ SelectedAboveRcond(inp)
    /\ \A k \in 1..2 : out.U[k][1].r > 1 /\ out.U[k][2].r = 1

\* C5: for every rank in 1..d and either solver, fit_reduced_rank_regression
\* and fit_principal_component_regression (reg >= 0) complete and return a
\* matrix of shape (d, rank), also when the iterative solver is asked for
\* rank + 3 >= d or rank >= d eigenpairs.
C5_ShapeForValidRank ==
    (/\ pc = "done"
     /\ FitRank(inp) \in 1..Dim(inp)
     /\ inp.tikhonov_reg >= 0)
    => /\ out.raised = "none"
       /\ Shape(out.U) = <<Dim(inp), FitRank(inp)>>

\* The regularized reduced-rank fitter asking the iterative solver for
\* 4 eigenpairs of a matrix of order 2.
C5_Witness ==
    /\ pc = "done"
    /\ inp.fitter = "rrr"
    /\ inp.svd_solver = "arnoldi"
    /\ inp.tikhonov_reg > 0
    /\ inp.rank = 1
    /\ Dim(inp) = 2
    /\ Shape(out.U) = <<2, 1>>

\* C6 as stated: a fitter called with rank > d or rank < 1 fails with an
\* invalid-rank error before any eigen-solve or other computation.
C6_InvalidRankRejected ==
    (/\ pc = "done"
     /\ FitRank(inp) > Dim(inp) \/ FitRank(inp) < 1)
    => /\ out.raised = "AssertionError"
       /\ out.steps = <<>>

\* C7 as stated: a fitter called with a negative regularization fails with
\* an invalid-regularization error before the regularized covariance is
\* formed or a solver runs, and returns no matrix.
C7_NegativeRegRejected ==
    (pc = "done" /\ inp.tikhonov_reg < 0)
    => /\ out.raised = "InvalidRegularization"
       /\ out.steps = <<>>

RRRRegularizedCall ==
    /\ pc = "done"
    /\ inp.fitter = "rrr"
    /\ inp.tikhonov_reg > 0
    /\ out.raised = "none"

----------------------------------------------------------------------------
(* N-dimensional arrays: a shape and the entries in row-major order *)

Arr(shape, data) == [shape |-> shape, data |-> data]

\* The product of shape[from..], the number of entries under one index of
\* the axes before `from`.
RECURSIVE Trail(_, _)
Trail(shape, from) ==
    IF from > Len(shape) THEN 1 ELSE shape[from] * Trail(shape, from + 1)

Ndim(a) == Len(a.shape)

\* a[:, idx, ...] for a list idx of positions (from 1) on the second axis;
\* m is the length of that axis and inner the size of one snapshot.
TakeAxis1Of(a, idx, m, inner) ==
    Arr(<<a.shape[1], Len(idx)>> \o SubSeq(a.shape, 3, Len(a.shape)),
        [p \in 1..(a.shape[1] * Len(idx) * inner) |->
            a.data[((p - 1) \div (Len(idx) * inner)) * m * inner
                   + (idx[(((p - 1) \div inner) % Len(idx)) + 1] - 1) * inner
                   + ((p - 1) % inner) + 1]])

TakeAxis1(a, idx) == TakeAxis1Of(a, idx, a.shape[2], Trail(a.shape, 3))

\* A slice bound of Python on an axis of length m: negative bounds count
\* from the end, and bounds are clamped to 0..m.
SliceBound(b, m) ==
    IF b < 0 THEN (IF b + m < 0 THEN 0 ELSE b + m)
    ELSE IF b > m THEN m ELSE b

SliceIdx(lo, hi) == [j \in 1..(hi - lo) |-> lo + j]

\* a[:, lo:hi, ...]
Slice1(a, lo, hi) ==
    TakeAxis1(a, SliceIdx(SliceBound(lo, a.shape[2]), SliceBound(hi, a.shape[2])))

DropAxis1(a) == Arr(<<a.shape[1]>> \o SubSeq(a.shape, 3, Len(a.shape)), a.data)

\* a[:, i, ...] for an index i of Python, negative from the end.
Index1(a, i) ==
    DropAxis1(TakeAxis1(a, <<IF i < 0 THEN i + a.shape[2] + 1 ELSE i + 1>>))

\* a[np.newaxis, ...] and a[:, np.newaxis, ...]
NewAxis0(a) == Arr(<<1>> \o a.shape, a.data)
NewAxis1(a) == Arr(<<a.shape[1], 1>> \o SubSeq(a.shape, 2, Len(a.shape)), a.data)

ConcatAxis1Of(a, b, ra, rb) ==
    Arr(<<a.shape[1], a.shape[2] + b.shape[2]>> \o SubSeq(a.shape, 3, Len(a.shape)),
        [p \in 1..(a.shape[1] * (ra + rb)) |->
            IF (p - 1) % (ra + rb) < ra
            THEN a.data[((p - 1) \div (ra + rb)) * ra + ((p - 1) % (ra + rb)) + 1]
            ELSE b.data[((p - 1) \div (ra + rb)) * rb
                        + ((p - 1) % (ra + rb)) - ra + 1]])

\* np.concatenate((a, b), axis=1)
ConcatAxis1(a, b) == ConcatAxis1Of(a, b, Trail(a.shape, 2), Trail(b.shape, 2))

\* np.stack((a, b), axis=1)
StackAxis1(a, b) == ConcatAxis1(NewAxis1(a), NewAxis1(b))

\* np.atleast_2d
atleast_2d(a) == IF Ndim(a) = 1 THEN NewAxis0(a) ELSE a

----------------------------------------------------------------------------
(* Context windows *)

CtxReturned(array, warned) == [raised |-> "none", array |-> array, warned |-> warned]
CtxRaised(kind) == [raised |-> kind, array |-> <<>>, warned |-> FALSE]

\* _in = _ctx[:, :-1, ...]; _out = _ctx[:, 1:, ...]; np.stack((_in, _out), axis=1)
stack_windows(ctx, warned) ==
    CtxReturned(StackAxis1(Slice1(ctx, 0, -1), Slice1(ctx, 1, ctx.shape[2])), warned)

stack_checked(contexts, lookback_len) ==
    IF lookback_len >= contexts.shape[2] THEN CtxRaised("ValueError")
    ELSE IF lookback_len < 1 THEN CtxRaised("ValueError")
    ELSE stack_windows(Slice1(contexts, 0, lookback_len + 1),
                       lookback_len < contexts.shape[2] - 1)

stack_2d(contexts, lookback_len) ==
    stack_checked(contexts,
                  IF lookback_len = <<>> THEN contexts.shape[2] - 1
                  ELSE lookback_len[1])

\* stack_lookback(contexts, lookback_len); lookback_len is <<>> for None
\* and <<l>> for the integer l.
stack_lookback(contexts, lookback_len) == stack_2d(atleast_2d(contexts), lookback_len)

\* The reconstruction taking the first snapshot of the lookforward window.
unstack_first(contexts) ==
    IF contexts.shape[2] # 2 THEN CtxRaised("ValueError")
    ELSE CtxReturned(ConcatAxis1(Index1(contexts, 0),
                                 NewAxis1(Index1(Index1(contexts, 1), 0))), FALSE)

\* _in = contexts[:, 0, ...]; _out = contexts[:, 1, -1, ...];
\* np.concatenate((_in, _out[:, np.newaxis, ...]), axis=1)
unstack_3d(contexts) ==
    IF contexts.shape[2] # 2 THEN CtxRaised("ValueError")
    ELSE CtxReturned(ConcatAxis1(Index1(contexts, 0),
                                 NewAxis1(Index1(Index1(contexts, 1), -1))), FALSE)

\* unstack_lookback(contexts); contexts.shape[1] of a one-dimensional array
\* is an IndexError.
unstack_lookback(contexts) ==
    IF Ndim(contexts) = 1 THEN CtxRaised("IndexError")
    ELSE unstack_3d(IF Ndim(contexts) = 2 THEN NewAxis0(contexts) ELSE contexts)

----------------------------------------------------------------------------
(* Specification SpecCtx: stack_lookback followed by unstack_lookback *)

MaxSamples == 2
MaxCtx == 3
MaxFeat == 1

\* Shapes (context_len,), (n_samples, context_len) and
\* (n_samples, context_len, n_features).
CtxShapes ==
    {<<l>> : l \in 1..MaxCtx}
    \cup {<<n, l>> : n \in 1..MaxSamples, l \in 1..MaxCtx}
    \cup {<<n, l, f>> : n \in 1..MaxSamples, l \in 1..MaxCtx, f \in 1..MaxFeat}

CtxArrays == UNION {{Arr(sh, d) : d \in [1..Trail(sh, 1) -> 0..1]} : sh \in CtxShapes}

LookbackLens == {<<>>} \cup {<<l>> : l \in 0..MaxCtx}

InitCtx == /\ pc = "call"
           /\ inp \in [contexts : CtxArrays, lookback_len : LookbackLens]
           /\ out = NoOut

CallStackLookback ==
    /\ pc = "call"
    /\ out' = [via |-> "stack_lookback",
               stacked |-> stack_lookback(inp.contexts, inp.lookback_len),
               unstacked |-> CtxRaised("none")]
    /\ pc' = "stacked"
    /\ UNCHANGED inp

\* unstack_lookback applied to what stack_lookback returned.
CallUnstackLookback ==
    /\ pc = "stacked"
    /\ out.stacked.raised = "none"
    /\ out' = [out EXCEPT !.unstacked = unstack_lookback(out.stacked.array)]
    /\ pc' = "done"
    /\ UNCHANGED inp

\* unstack_lookback applied to an array as it comes.
CallUnstackDirect ==
    /\ pc = "call"
    /\ out' = [via |-> "unstack_lookback",
               stacked |-> CtxRaised("none"),
               unstacked |-> unstack_lookback(inp.contexts)]
    /\ pc' = "done"
    /\ UNCHANGED inp

NextCtx == CallStackLookback \/ CallUnstackLookback \/ CallUnstackDirect

SpecCtx == InitCtx /\ [][NextCtx]_vars

ContextLen(i) == i.contexts.shape[2]
LookbackOf(i) ==
    IF i.lookback_len = <<>> THEN ContextLen(i) - 1 ELSE i.lookback_len[1]

\* A batch of contexts of length >= 2 with 1 <= lookback_len <= context_len - 1.
ValidLookback(i) ==
    /\ Ndim(i.contexts) >= 2
    /\ ContextLen(i) >= 2
    /\ LookbackOf(i) \in 1..(ContextLen(i) - 1)

\* contexts[:, :k, ...], entry by entry.
RefPrefixOf(c, k, row, inner) ==
    Arr(<<c.shape[1], k>> \o SubSeq(c.shape, 3, Len(c.shape)),
        [p \in 1..(c.shape[1] * k * inner) |->
            c.data[((p - 1) \div (k * inner)) * row + ((p - 1) % (k * inner)) + 1]])

RefPrefix(c, k) == RefPrefixOf(c, k, Trail(c.shape, 2), Trail(c.shape, 3))

\* C11: for a batch of contexts with context_len >= 2 and
\* 1 <= lookback_len <= context_len - 1 (None standing for context_len - 1),
\* stack_lookback returns an array of shape (n_samples, 2, lookback_len,
\* *features) and unstack_lookback of it is contexts[:, :lookback_len + 1, ...],
\* which is contexts itself when lookback_len = context_len - 1.
C11_UnstackInvertsStack ==
    /\ (pc = "stacked" /\ ValidLookback(inp)) =>
          /\ out.stacked.raised = "none"
          /\ out.stacked.array.shape =
                <<inp.contexts.shape[1], 2, LookbackOf(inp)>>
                \o SubSeq(inp.contexts.shape, 3, Ndim(inp.contexts))
    /\ (pc = "done" /\ out.via = "stack_lookback" /\ ValidLookback(inp)) =>
          /\ out.unstacked.raised = "none"
          /\ out.unstacked.array = RefPrefix(inp.contexts, LookbackOf(inp) + 1)
          /\ LookbackOf(inp) = ContextLen(inp) - 1 =>
                out.unstacked.array = inp.contexts

\* The round trip of two windows of three snapshots over the full lookback
\* of two, the entries not all equal.
C11_Witness ==
    /\ pc = "done"
    /\ out.via = "stack_lookback"
    /\ ValidLookback(inp)
    /\ Ndim(inp.contexts) = 3
    /\ inp.contexts.shape[1] = 2
    /\ inp.lookback_len = <<2>>
    /\ out.stacked.warned = FALSE
    /\ out.unstacked.array = inp.contexts
    /\ \E p, q \in 1..Len(inp.contexts.data) :
          inp.contexts.data[p] # inp.contexts.data[q]

====
